---- MODULE Spec2Model ----
(***************************************************************************)
(* Model of convert.py: the tool that prepends an "Open In Colab" badge    *)
(* cell to Jupyter notebooks.                                              *)
(*                                                                         *)
(* Text is modelled as a sequence of symbols (a symbol stands for one      *)
(* character or one fixed run of characters); concatenation is \o and      *)
(* substring search is search for a contiguous subsequence.  A JSON object *)
(* is a function whose domain is its set of keys.  A JSON value that may   *)
(* be a string or a list of strings (a cell's "source") carries its type   *)
(* in the field t; a string s is held as v = <<s>>, a list as v = list.    *)
(***************************************************************************)
EXTENDS Integers, Sequences, FiniteSets, TLC

VARIABLES
    fs,       \* the file system: path -> file
    files,    \* args.files
    repo,     \* args.repo
    branch,   \* args.branch
    idx,      \* position of main's for loop in args.files (1-based)
    pc,       \* where the process is
    printed,  \* the kind of the last message written to standard output
    data,     \* update_notebook's local "data"
    clean_arg, \* the argument of a direct call of clean_notebook_cells
    clean_ret, \* what that call returned
    orig,     \* history: the document as json.load returned it
    last,     \* history: the most recent update that was saved
    prev      \* history: the saved update of the same file that produced
              \*          last.before, if there was one

vars == <<fs, files, repo, branch, idx, pc, printed, data, clean_arg, clean_ret,
          orig, last, prev>>

-----------------------------------------------------------------------------
(* Bounds *)

\* length of the cells sequence handed to clean_notebook_cells directly
MaxCells == 3
\* length of the FILE list on the command line
MaxFiles == 2

-----------------------------------------------------------------------------
(* Text helpers *)

\* Python's "sub in line" for strings
Contains(line, sub) ==
    \E i \in 0..(Len(line) - Len(sub)) : SubSeq(line, i + 1, i + Len(sub)) = sub

\* the characters str.splitlines treats as line boundaries (those that occur
\* in the sample texts); "\r" followed by "\n" is one boundary
LineBreaks == {"\n", "\r"}

RECURSIVE splitlines_from(_, _, _)
splitlines_from(s, i, cur) ==
    IF i > Len(s)
    THEN IF cur = <<>> THEN <<>> ELSE <<cur>>
    ELSE IF s[i] = "\r" /\ i < Len(s) /\ s[i + 1] = "\n"
         THEN <<cur \o <<"\r", "\n">>>> \o splitlines_from(s, i + 2, <<>>)
         ELSE IF s[i] \in LineBreaks
              THEN <<cur \o <<s[i]>>>> \o splitlines_from(s, i + 1, <<>>)
              ELSE splitlines_from(s, i + 1, cur \o <<s[i]>>)

\* source.splitlines(keepends=True)
splitlines(s) == splitlines_from(s, 1, <<>>)

\* urllib.parse.quote of one character with safe='': unreserved characters
\* stay, every other character becomes its percent escape
quote_char(c) ==
    CASE c = "/" -> "%2F"
      [] c = " " -> "%20"
      [] c = "%" -> "%25"
      [] OTHER   -> c

\* urllib.parse.quote(branch, safe='')
quote(s) == [i \in 1..Len(s) |-> quote_char(s[i])]

\* JSON values of a "source" field
Str(s) == [t |-> "str", v |-> <<s>>]
List(ls) == [t |-> "list", v |-> ls]

\* variant: list.append(x)
Insert_at_end(s, i, x) == Append(s, x)

\* list.insert(i, x) for 0 <= i <= len
Insert(s, i, x) == SubSeq(s, 1, i) \o <<x>> \o SubSeq(s, i + 1, Len(s))

\* d[k] = val on a dict
SetKey(d, k, val) == [j \in DOMAIN d \cup {k} |-> IF j = k THEN val ELSE d[j]]

-----------------------------------------------------------------------------
(* The functions of convert.py *)

image_url == <<"https://colab.research.google.com", "/assets/", "colab-badge", ".svg">>

BadgeMarker == <<"colab-badge", ".svg">>

\* variant: only the whole image URL counts as the mark
is_badge_line_image_url(line) == Contains(line, image_url)

\* variant: only a badge that links to the repository o/r counts
is_badge_line_one_repo(line) ==
    Contains(line, <<"colab-badge", ".svg">>) /\ Contains(line, <<"/github/", "o", "/", "r">>)

is_badge_line(line) == Contains(line, BadgeMarker)

\* [line for line in source if not is_badge_line(line)]
filter_badge_lines(source) == SelectSeq(source, LAMBDA line : ~is_badge_line(line))

\* variant: cell["cell_type"] != "markdown" taken as false when the key is missing
not_markdown_strict(cell) == "cell_type" \in DOMAIN cell /\ cell["cell_type"] # "markdown"

\* cell.get("cell_type") != "markdown"
not_markdown(cell) == ~("cell_type" \in DOMAIN cell /\ cell["cell_type"] = "markdown")

\* source = cell.get("source", []), split into lines when it is a string
source_lines(cell) ==
    IF "source" \notin DOMAIN cell THEN <<>>
    ELSE IF cell["source"].t = "str" THEN splitlines(cell["source"].v[1])
    ELSE cell["source"].v

\* variant: a cell is dropped as soon as a line was removed from it
was_badge_only_any_removed(source, new_source) == Len(source) # Len(new_source)

\* variant: a cell is dropped whenever no line is left
was_badge_only_nothing_left(source, new_source) == Len(new_source) = 0

was_badge_only(source, new_source) ==
    (Len(source) > 0) /\ (Len(new_source) = 0) /\ (Len(source) # Len(new_source))

\* variant: a kept markdown cell is built anew from its type and its lines
clean_cell_rebuilt(cleaned_cells, cell) ==
    IF ~("cell_type" \in DOMAIN cell /\ cell["cell_type"] = "markdown")
    THEN Append(cleaned_cells, cell)
    ELSE LET source == IF "source" \notin DOMAIN cell THEN <<>>
                       ELSE IF cell["source"].t = "str" THEN splitlines(cell["source"].v[1])
                       ELSE cell["source"].v
             new_source == SelectSeq(source, LAMBDA line : ~Contains(line, <<"colab-badge", ".svg">>))
         IN  IF ~((Len(source) > 0) /\ (Len(new_source) = 0))
             THEN Append(cleaned_cells,
                         [cell_type |-> "markdown", source |-> [t |-> "list", v |-> new_source]])
             ELSE cleaned_cells

\* one pass of the for loop of clean_notebook_cells: cleaned_cells afterwards
clean_cell(cleaned_cells, cell) ==
    IF not_markdown(cell)
    THEN Append(cleaned_cells, cell)
    ELSE LET source == source_lines(cell)
             new_source == filter_badge_lines(source)
         IN  IF ~was_badge_only(source, new_source)
             THEN Append(cleaned_cells, SetKey(cell, "source", List(new_source)))
             ELSE cleaned_cells

RECURSIVE clean_loop(_, _, _)
clean_loop(cells, k, cleaned_cells) ==
    IF k > Len(cells) THEN cleaned_cells
    ELSE clean_loop(cells, k + 1, clean_cell(cleaned_cells, cells[k]))

clean_notebook_cells(cells) == clean_loop(cells, 1, <<>>)

colab_url(r, b, file_path) ==
    <<"https://colab.research.google.com", "/github/">> \o r \o <<"/blob/">>
        \o quote(b) \o <<"/">> \o <<file_path>>

badge_html(r, b, file_path) ==
    <<"<a href=\"">> \o colab_url(r, b, file_path)
        \o <<"\" target=\"_parent\"><img src=\"">> \o image_url
        \o <<"\" alt=\"Open In Colab\"/></a>">>

create_badge_cell(r, b, file_path) ==
    [cell_type |-> "markdown",
     metadata  |-> {},
     source    |-> List(<<badge_html(r, b, file_path)>>)]

\* variant: the badge cell is inserted without the cleaning step
update_data_no_clean(d, r, b, file_path) ==
    LET given == IF "cells" \in DOMAIN d THEN d["cells"] ELSE <<>>
    IN  [j \in DOMAIN d \cup {"cells"} |->
            IF j = "cells"
            THEN <<create_badge_cell(r, b, file_path)>> \o given
            ELSE d[j]]

\* lines 99-109 of update_notebook on a document that is a JSON object
update_data(d, r, b, file_path) ==
    LET cleaned == IF "cells" \in DOMAIN d
                   THEN SetKey(d, "cells", clean_notebook_cells(d["cells"]))
                   ELSE SetKey(d, "cells", <<>>)
    IN  SetKey(cleaned, "cells",
               Insert(cleaned["cells"], 0, create_badge_cell(r, b, file_path)))

-----------------------------------------------------------------------------
(* Sample inputs *)

PathA == "a.ipynb"
PathB == "b.ipynb"
Paths == {PathA, PathB}

\* (repo, branch) pairs of the command line
Targets == { <<<<"o", "/", "r">>, <<"main">>>>,
             <<<<"fork", "/", "r">>, <<"feature", "/", "x", " ", "y">>>> }

TitleLine == <<"#", " ", "Title", "\n">>
\* a badge inserted earlier for a repository and branch that is no current target
OldBadge == badge_html(<<"old", "/", "r">>, <<"dev">>, "old.ipynb")
OldBadgeLine == OldBadge \o <<"\n">>
\* the asset name inside other text
MentionLine == <<"see ", "colab-badge", ".svg", "\n">>
\* not the asset name
NearMissLine == <<"colab-badge", ".png">>
\* the asset name broken by a line boundary
BrokenBlob == <<"colab-badge", "\r", "\n", ".svg">>

Meta == {<<"collapsed", "true">>}

TitleAndBadge ==
    [cell_type |-> "markdown", metadata |-> {}, source |-> List(<<TitleLine, OldBadge>>)]
BadgeLinesOnly ==
    [cell_type |-> "markdown", metadata |-> Meta, source |-> List(<<OldBadgeLine, MentionLine>>)]
BlobTitleAndBadge ==
    [cell_type |-> "markdown", metadata |-> Meta,
     source |-> Str(TitleLine \o OldBadgeLine \o NearMissLine)]
BlobBadgeOnly == [cell_type |-> "markdown", source |-> Str(OldBadge)]
BlobBroken == [cell_type |-> "markdown", source |-> Str(BrokenBlob)]
NoSource == [cell_type |-> "markdown", metadata |-> Meta]
EmptyList == [cell_type |-> "markdown", metadata |-> {}, source |-> List(<<>>)]
EmptyBlob == [cell_type |-> "markdown", source |-> Str(<<>>)]
CodeWithBadge ==
    [cell_type |-> "code", metadata |-> {}, outputs |-> <<"out">>,
     source |-> List(<<MentionLine, OldBadge>>)]
NoCellType == [metadata |-> Meta, source |-> Str(OldBadge)]

CellSamples ==
    { TitleAndBadge, BadgeLinesOnly, BlobTitleAndBadge, BlobBadgeOnly, BlobBroken,
      NoSource, EmptyList, EmptyBlob, CodeWithBadge, NoCellType }

\* top-level fields of a notebook other than "cells"
TopFields == [nbformat |-> 4, metadata |-> {<<"kernelspec", "python3">>}]

EmptyDict == <<>>

Notebook(cs) == SetKey(TopFields, "cells", cs)

\* the notebooks on disk before the first run: the object {}, and three
\* notebooks that between them hold every sample cell
NotebookSamples ==
    { EmptyDict,
      Notebook(<<TitleAndBadge>>),
      Notebook(<<BadgeLinesOnly, CodeWithBadge, NoSource, BlobTitleAndBadge>>),
      Notebook(<<EmptyBlob, BlobBadgeOnly, NoCellType, EmptyList, BlobBroken>>) }

File(kind, doc, fmt, writable) ==
    [kind |-> kind, doc |-> doc, fmt |-> fmt, writable |-> writable]

Absent == File("absent", EmptyDict, "none", TRUE)

\* what a path may hold before the first run: no file, a file that cannot be
\* opened, text that is not JSON, JSON whose top level is an array, a
\* notebook, a notebook that cannot be written
FileSamples ==
    {Absent}
    \cup {File(k, EmptyDict, "as_found", TRUE) : k \in {"unreadable", "malformed", "array"}}
    \cup {File("object", d, "as_found", TRUE) : d \in NotebookSamples}
    \cup {File("object", Notebook(<<TitleAndBadge>>), "as_found", FALSE)}

FileLists == UNION {[1..n -> Paths] : n \in 1..MaxFiles}

CellLists == UNION {[1..n -> CellSamples] : n \in 0..MaxCells}

NoData == [top |-> "none", doc |-> EmptyDict]
NoUpdate == [path |-> "", repo |-> <<>>, branch |-> <<>>,
             before |-> EmptyDict, after |-> EmptyDict]

-----------------------------------------------------------------------------
(* The process *)

Init ==
    /\ fs \in [Paths -> FileSamples]
    /\ files = <<>>
    /\ repo = <<>>
    /\ branch = <<>>
    /\ idx = 1
    /\ pc = "start"
    /\ printed = "none"
    /\ data = NoData
    /\ clean_arg = <<>>
    /\ clean_ret = <<>>
    /\ orig = EmptyDict
    /\ last = NoUpdate
    /\ prev = NoUpdate

\* a process starts: parse_args succeeds
ParseArgs ==
    /\ pc \in {"start", "exit0", "exit1", "exit2"}
    /\ \E fl \in FileLists, t \in Targets :
          /\ files' = fl
          /\ repo' = t[1]
          /\ branch' = t[2]
    /\ idx' = 1
    /\ pc' = "loop"
    /\ printed' = "none"
    /\ UNCHANGED <<fs, data, clean_arg, clean_ret, orig, last, prev>>

\* a process starts without FILE, --repo or --branch: argparse prints the
\* usage message and exits with status 2
ParseArgsError ==
    /\ pc \in {"start", "exit0", "exit1", "exit2"}
    /\ pc' = "exit2"
    /\ printed' = "usage"
    /\ UNCHANGED <<fs, files, repo, branch, idx, data, clean_arg, clean_ret, orig, last, prev>>

\* os.path.exists(file_path)
exists(file_path) == fs[file_path].kind # "absent"

\* the head of main's for loop, up to the call of update_notebook and its
\* first print; the process and its memory end when the list is exhausted
MainLoop ==
    /\ pc = "loop"
    /\ IF idx > Len(files)
       THEN /\ pc' = "exit0"
            /\ files' = <<>>
            /\ repo' = <<>>
            /\ branch' = <<>>
            /\ idx' = 1
            /\ printed' = "none"
       ELSE IF ~exists(files[idx])
            THEN /\ printed' = "not_found"
                 /\ idx' = idx + 1
                 /\ pc' = "loop"
                 /\ UNCHANGED <<files, repo, branch>>
            ELSE /\ printed' = "updating"
                 /\ pc' = "read"
                 /\ UNCHANGED <<files, repo, branch, idx>>
    /\ UNCHANGED <<fs, data, clean_arg, clean_ret, orig, last, prev>>

\* variant: the except branch reports the error and does not return
ReadNotebook_no_return ==
    /\ pc = "read"
    /\ LET f == fs[files[idx]]
       IN  IF f.kind \in {"unreadable", "malformed"}
           THEN /\ printed' = "read_error"
                /\ data' = [top |-> "object", doc |-> EmptyDict]
                /\ orig' = EmptyDict
           ELSE /\ data' = [top |-> f.kind, doc |-> f.doc]
                /\ orig' = f.doc
                /\ UNCHANGED printed
    /\ pc' = "transform"
    /\ UNCHANGED <<fs, files, repo, branch, idx, clean_arg, clean_ret, last, prev>>

\* open(file_path, 'r') and json.load
ReadNotebook ==
    /\ pc = "read"
    /\ LET f == fs[files[idx]]
       IN  IF f.kind \in {"unreadable", "malformed"}
           THEN /\ printed' = "read_error"
                /\ idx' = idx + 1
                /\ pc' = "loop"
                /\ UNCHANGED <<data, orig>>
           ELSE /\ data' = [top |-> f.kind, doc |-> f.doc]
                /\ orig' = f.doc
                /\ pc' = "transform"
                /\ UNCHANGED <<idx, printed>>
    /\ UNCHANGED <<fs, files, repo, branch, clean_arg, clean_ret, last, prev>>

\* lines 99-109; `"cells" in data` is false on a list and the assignment
\* data["cells"] = [] then raises TypeError, which nothing catches: the
\* process ends with a traceback and status 1
Transform ==
    /\ pc = "transform"
    /\ IF data.top = "object"
       THEN /\ data' = [top |-> "object",
                        doc |-> update_data(data.doc, repo, branch, files[idx])]
            /\ pc' = "write"
            /\ UNCHANGED <<files, repo, branch, idx, printed, orig>>
       ELSE /\ data' = NoData
            /\ orig' = EmptyDict
            /\ pc' = "exit1"
            /\ printed' = "traceback"
            /\ files' = <<>>
            /\ repo' = <<>>
            /\ branch' = <<>>
            /\ idx' = 1
    /\ UNCHANGED <<fs, clean_arg, clean_ret, last, prev>>

\* json.dump(data, f, indent=1, ensure_ascii=False) and the trailing newline
dumped(d, writable) == File("object", d, "indent1_utf8_newline", writable)

\* open(file_path, 'w') and json.dump: the open fails on a file that is not
\* writable and leaves it as it is; once the file is open (and truncated) the
\* write either completes or fails part-way, which leaves text that is no JSON
WriteNotebook ==
    /\ pc = "write"
    /\ LET p == files[idx]
           f == fs[p]
       IN  \/ /\ f.writable
              /\ fs' = [fs EXCEPT ![p] = dumped(data.doc, TRUE)]
              /\ prev' = IF last.path = p /\ last.after = orig THEN last ELSE NoUpdate
              /\ last' = [path |-> p, repo |-> repo, branch |-> branch,
                          before |-> orig, after |-> data.doc]
              /\ UNCHANGED printed
           \/ /\ f.writable
              /\ fs' = [fs EXCEPT ![p] = File("malformed", EmptyDict, "partial", TRUE)]
              /\ printed' = "write_error"
              /\ UNCHANGED <<last, prev>>
           \/ /\ ~f.writable
              /\ printed' = "write_error"
              /\ UNCHANGED <<fs, last, prev>>
    /\ data' = NoData
    /\ orig' = EmptyDict
    /\ idx' = idx + 1
    /\ pc' = "loop"
    /\ UNCHANGED <<files, repo, branch, clean_arg, clean_ret>>

Next ==
    \/ ParseArgs
    \/ ParseArgsError
    \/ MainLoop
    \/ ReadNotebook
    \/ Transform
    \/ WriteNotebook

Spec == Init /\ [][Next]_vars

-----------------------------------------------------------------------------
(* clean_notebook_cells called on its own *)

CleanInit ==
    /\ clean_arg \in CellLists
    /\ clean_ret = <<>>
    /\ pc = "clean"
    /\ fs = [p \in Paths |-> Absent]
    /\ files = <<>>
    /\ repo = <<>>
    /\ branch = <<>>
    /\ idx = 1
    /\ printed = "none"
    /\ data = NoData
    /\ orig = EmptyDict
    /\ last = NoUpdate
    /\ prev = NoUpdate

CleanCall ==
    /\ pc = "clean"
    /\ clean_ret' = clean_notebook_cells(clean_arg)
    /\ pc' = "return"
    /\ UNCHANGED <<fs, files, repo, branch, idx, printed, data, clean_arg, orig, last, prev>>

CleanNext == CleanCall

CleanSpec == CleanInit /\ [][CleanNext]_vars

-----------------------------------------------------------------------------
(* Vocabulary of the properties *)

\* an update has been saved / two updates of one file have been saved in
\* succession, the second reading what the first wrote
Saved == last.path # ""
SavedTwice == Saved /\ prev.path # ""

HasBadgeMark(line) == Contains(line, BadgeMarker)
IsMarkdown(cell) == "cell_type" \in DOMAIN cell /\ cell["cell_type"] = "markdown"

\* the source lines of a cell: the list as it is, a string cut at its line
\* boundaries, nothing when there is no source
LinesOf(cell) ==
    IF "source" \notin DOMAIN cell THEN <<>>
    ELSE IF cell["source"].t = "str" THEN splitlines(cell["source"].v[1])
    ELSE cell["source"].v

NonBadgeLines(cell) == SelectSeq(LinesOf(cell), LAMBDA line : ~HasBadgeMark(line))

\* a markdown cell with at least one line, all of them badge-marked
BadgeOnly(cell) ==
    /\ IsMarkdown(cell)
    /\ LinesOf(cell) # <<>>
    /\ \A j \in 1..Len(LinesOf(cell)) : HasBadgeMark(LinesOf(cell)[j])

\* a markdown cell with at least one line that is not badge-marked
HasContent(cell) == IsMarkdown(cell) /\ NonBadgeLines(cell) # <<>>

\* a markdown cell without lines
NoLines(cell) == IsMarkdown(cell) /\ LinesOf(cell) = <<>>

\* where cell i of cs stands once the badge-only cells before it are gone
PosOf(cs, i) == i - Cardinality({j \in 1..(i - 1) : BadgeOnly(cs[j])})

KeptCount(cs) == Len(cs) - Cardinality({j \in 1..Len(cs) : BadgeOnly(cs[j])})

\* cell c with its "source" put to src, all else as it was
WithSource(c, src) ==
    [k \in DOMAIN c \cup {"source"} |-> IF k = "source" THEN src ELSE c[k]]

SameButSource(c, d) ==
    /\ DOMAIN c \ {"source"} = DOMAIN d \ {"source"}
    /\ \A k \in DOMAIN c \ {"source"} : c[k] = d[k]

CellsOf(d) == IF "cells" \in DOMAIN d THEN d["cells"] ELSE <<>>

Returned == pc = "return"

-----------------------------------------------------------------------------
(* Properties *)

\* C1: when the same file is updated twice in succession with the same repo
\* and branch, the cells after the second run are the cells after the first.
C1_Idempotent ==
    (SavedTwice /\ prev.repo = last.repo /\ prev.branch = last.branch)
        => last.after["cells"] = prev.after["cells"]

C1_Witness ==
    /\ SavedTwice
    /\ prev.repo = last.repo
    /\ prev.branch = last.branch
    /\ Len(last.after["cells"]) >= 3
    /\ \E i \in 1..Len(CellsOf(prev.before)) : BadgeOnly(CellsOf(prev.before)[i])

\* C2: after a saved update the first cell is the badge cell built for that
\* repo, branch and path, and no line of any other markdown cell carries the
\* badge mark.
C2_BadgeFirstAndOnly ==
    Saved =>
        /\ Len(last.after["cells"]) >= 1
        /\ last.after["cells"][1] = create_badge_cell(last.repo, last.branch, last.path)
        /\ \A i \in 2..Len(last.after["cells"]) :
              IsMarkdown(last.after["cells"][i]) =>
                 \A j \in 1..Len(LinesOf(last.after["cells"][i])) :
                    ~HasBadgeMark(LinesOf(last.after["cells"][i])[j])

C2_Witness ==
    /\ Saved
    /\ \E i \in 1..Len(CellsOf(last.before)) :
          /\ HasContent(CellsOf(last.before)[i])
          /\ \E j \in 1..Len(LinesOf(CellsOf(last.before)[i])) :
                HasBadgeMark(LinesOf(CellsOf(last.before)[i])[j])

\* C3: once the arguments are parsed, no file's state or contents makes the
\* process end by an uncaught exception with files of the list left over.
C3_FailureIsolation == pc # "exit1"

\* C4: updating a file for one target and then for another leaves the cells
\* that one update of the original file for the second target leaves.
C4_SwitchTarget ==
    SavedTwice =>
        last.after["cells"] =
            update_data(prev.before, last.repo, last.branch, last.path)["cells"]

C4_Witness ==
    /\ SavedTwice
    /\ prev.repo # last.repo
    /\ prev.branch # last.branch
    /\ Len(last.after["cells"]) >= 2

\* C5: clean_notebook_cells leaves out every markdown cell whose lines are
\* all badge-marked (and that has a line), and returns every markdown cell
\* that has a line without the mark, in place, with exactly those lines, in
\* their order, as its source.
C5_BadgeOnlyRemoval ==
    Returned =>
        /\ Len(clean_ret) = KeptCount(clean_arg)
        /\ \A i \in 1..Len(clean_arg) :
              HasContent(clean_arg[i]) =>
                 /\ PosOf(clean_arg, i) \in 1..Len(clean_ret)
                 /\ "source" \in DOMAIN clean_ret[PosOf(clean_arg, i)]
                 /\ clean_ret[PosOf(clean_arg, i)]["source"] = List(NonBadgeLines(clean_arg[i]))
                 /\ SameButSource(clean_ret[PosOf(clean_arg, i)], clean_arg[i])

C5_Witness ==
    /\ Returned
    /\ \E i, j \in 1..Len(clean_arg) :
          /\ i < j
          /\ BadgeOnly(clean_arg[i])
          /\ HasContent(clean_arg[j])
          /\ NonBadgeLines(clean_arg[j]) # LinesOf(clean_arg[j])

\* C6: clean_notebook_cells returns every cell that is not a markdown cell,
\* in place and equal to what it was, badge mark in its text or not.
C6_NonMarkdownKept ==
    Returned =>
        \A i \in 1..Len(clean_arg) :
           ~IsMarkdown(clean_arg[i]) =>
              /\ PosOf(clean_arg, i) \in 1..Len(clean_ret)
              /\ clean_ret[PosOf(clean_arg, i)] = clean_arg[i]

C6_Witness ==
    /\ Returned
    /\ \E i, j \in 1..Len(clean_arg) :
          /\ i < j
          /\ BadgeOnly(clean_arg[i])
          /\ ~IsMarkdown(clean_arg[j])
          /\ \E k \in 1..Len(LinesOf(clean_arg[j])) : HasBadgeMark(LinesOf(clean_arg[j])[k])

\* C7: after a saved update the cells are the new badge cell followed by the
\* cleaned prior cells in their order; without a "cells" field in the
\* document they are the badge cell alone.
C7_InsertionPosition ==
    Saved =>
        LET badge == create_badge_cell(last.repo, last.branch, last.path)
            prior == IF "cells" \in DOMAIN last.before
                     THEN clean_notebook_cells(last.before["cells"])
                     ELSE <<>>
            now == last.after["cells"]
        IN  /\ Len(now) = Len(prior) + 1
            /\ now[1] = badge
            /\ \A i \in 1..Len(prior) : now[i + 1] = prior[i]

C7_Witness ==
    /\ Saved
    /\ "cells" \in DOMAIN last.before
    /\ Len(last.after["cells"]) >= 3

C7_WitnessNoCells ==
    /\ Saved
    /\ "cells" \notin DOMAIN last.before
    /\ Len(last.after["cells"]) = 1

\* C8: a file changes only in the write step of update_notebook for that
\* very path, after that file was read and parsed: a missing file is never
\* created and a file that cannot be read or parsed stays as it is.
C8_WriteOnlyAfterRead ==
    [][\A p \in Paths :
          fs'[p] # fs[p] =>
             /\ pc = "write"
             /\ p = files[idx]
             /\ fs[p].kind = "object"
             /\ fs[p].doc = orig]_vars

C8_Witness ==
    /\ pc = "loop"
    /\ printed = "read_error"
    /\ Saved
    /\ fs[last.path].fmt = "indent1_utf8_newline"
    /\ \E p \in Paths : fs[p].kind \in {"unreadable", "malformed"} /\ fs[p].fmt = "as_found"

\* C9: a saved update keeps every top-level field other than "cells", adds
\* none but "cells", and keeps every field other than "source" of every cell
\* that survives; a surviving cell that is no markdown cell is kept whole.
C9_RoundTrip ==
    Saved =>
        LET old == CellsOf(last.before)
            now == last.after["cells"]
        IN  /\ DOMAIN last.after = DOMAIN last.before \cup {"cells"}
            /\ \A k \in DOMAIN last.before \ {"cells"} : last.after[k] = last.before[k]
            /\ Len(now) = 1 + KeptCount(old)
            /\ \A i \in 1..Len(old) :
                  ~BadgeOnly(old[i]) =>
                     /\ SameButSource(now[1 + PosOf(old, i)], old[i])
                     /\ ~IsMarkdown(old[i]) => now[1 + PosOf(old, i)] = old[i]

C9_Witness ==
    /\ Saved
    /\ DOMAIN last.before \ {"cells"} # {}
    /\ \E i, j \in 1..Len(CellsOf(last.before)) :
          /\ HasContent(CellsOf(last.before)[i])
          /\ "metadata" \in DOMAIN CellsOf(last.before)[i]
          /\ CellsOf(last.before)[i]["metadata"] # {}
          /\ ~IsMarkdown(CellsOf(last.before)[j])

\* C10 as stated: clean_notebook_cells returns a markdown cell whose source
\* is empty or missing equal to what it was.
C10_EmptyUnchanged ==
    Returned =>
        \A i \in 1..Len(clean_arg) :
           NoLines(clean_arg[i]) =>
              /\ PosOf(clean_arg, i) \in 1..Len(clean_ret)
              /\ clean_ret[PosOf(clean_arg, i)] = clean_arg[i]

\* C10 amended: clean_notebook_cells returns a markdown cell whose source is
\* empty or missing (it is not dropped) with its source the empty list and
\* its other fields as they were.
C10_EmptyKept ==
    Returned =>
        \A i \in 1..Len(clean_arg) :
           NoLines(clean_arg[i]) =>
              /\ PosOf(clean_arg, i) \in 1..Len(clean_ret)
              /\ clean_ret[PosOf(clean_arg, i)] = WithSource(clean_arg[i], List(<<>>))

C10_Witness ==
    /\ Returned
    /\ \E i, j, k \in 1..Len(clean_arg) :
          /\ "source" \notin DOMAIN clean_arg[i]
          /\ NoLines(clean_arg[i])
          /\ NoLines(clean_arg[j])
          /\ "source" \in DOMAIN clean_arg[j]
          /\ clean_arg[j]["source"].t = "str"
          /\ "source" \in DOMAIN clean_arg[k]
          /\ clean_arg[k]["source"] = List(<<>>)

====
